---- MODULE Spec2Model ----
(***************************************************************************)
(* A model of src/data_structures/linked_list.rs: the doubly linked list   *)
(* LinkedList<T> over raw NonNull<Node<T>> pointers.                       *)
(*                                                                         *)
(* The heap is a finite pool of node addresses.  Box::new may return any   *)
(* address that is not currently allocated, in particular one that was     *)
(* released earlier and that a stale pointer still refers to.              *)
(*                                                                         *)
(* Reading a field through a pointer to a released node, or releasing it a *)
(* second time, is undefined behaviour: such a read returns any pointer    *)
(* (or any value), a write through such a pointer lands in memory no node  *)
(* owns and is lost, and the call is recorded as faulty.  The source       *)
(* defines nothing about what follows a faulty call, so a run ends there.  *)
(* A panic unwinds out of the caller, so a run ends there too.             *)
(*                                                                         *)
(* A node that neither head nor tail leads to any more (a leaked node) can *)
(* never be read again by the list: it stays allocated, and its content is *)
(* not tracked.                                                            *)
(***************************************************************************)
EXTENDS Integers, Sequences, FiniteSets, TLC

\* ------------------------------------------------------------------ bounds
\* The Queue holds at most MaxQueue elements.
MaxQueue == 4
\* A tree gets at most MaxInserts values, each in 0..MaxKey; next is called
\* at most MaxNextAfterEnd times more than there are values.
MaxInserts == 4
MaxKey == 2
MaxNextAfterEnd == 2
\* A scripted run of the list: node addresses, and values 0..ScriptMaxVal.
ScriptNodes == 4
ScriptMaxVal == 3
\* Number of node addresses the allocator can hand out.
MaxNodes == 3
\* Stored values are 0..MaxVal.
MaxVal == 1

\* ------------------------------------------------------- program constants
\* Option::None of a pointer, Option<NonNull<Node<T>>>: the null address.
None == 0

NodeIds == 1..MaxNodes
Ptrs == {None} \cup NodeIds
Vals == 0..MaxVal
\* index arguments tried by the environment (one beyond every valid index).
Indices == 0..(MaxNodes + 1)
\* index arguments of get, an i32: a negative one as well.
GetIndices == (-1)..(MaxNodes + 1)

\* Option<T>: Option::None and Some(t).
NoneT == <<>>
Some(t) == <<t>>

\* The content of an address no node occupies.
Freed == [at |-> "free", val |-> 0, next |-> None, prev |-> None]
\* An allocated node the list has lost every path to.
Leaked == [at |-> "leaked", val |-> 0, next |-> None, prev |-> None]

VARIABLES
    length,  \* LinkedList.length
    head,    \* LinkedList.head
    tail,    \* LinkedList.tail
    heap,    \* NodeIds -> the Node stored at that address, Freed or Leaked
    last,    \* the call in progress: what it was given, what it returns
    script,  \* the values a scripted run of the list inserts
    pc,      \* the number of calls a scripted run has made
    elements, \* Queue.elements
    pending, \* the values enqueued and not dequeued since the last drain
    tree,    \* the BinarySearchTree
    inserted, \* the values given to BinarySearchTree::insert, in call order
    stack,   \* BinarySearchTreeIter.stack (NoIter when there is no iterator)
    yielded  \* what the calls of next on the iterator have returned

listVars == <<length, head, tail, heap>>
scriptVars == <<script, pc>>
queueVars == <<elements, pending>>
treeVars == <<tree, inserted, stack, yielded>>
vars == <<length, head, tail, heap, last, script, pc, elements, pending,
          tree, inserted, stack, yielded>>

\* The list as one value.
Self == [length |-> length, head |-> head, tail |-> tail, heap |-> heap]

\* ------------------------------------------------------------ heap access
\* Node::new(t), then Box::new and Box::into_raw: the node at a fresh address.
NodeNew(t) == [at |-> "node", val |-> t, next |-> None, prev |-> None]

FreeIds(h) == {n \in DOMAIN h : h[n].at = "free"}

\* The addresses some pointer of the list s holds, released ones included.
Referenced(s) ==
    ({s.head, s.tail} \cup {s.heap[n].next : n \in DOMAIN s.heap}
                      \cup {s.heap[n].prev : n \in DOMAIN s.heap})
        \ {None}

\* Box::new: the addresses the allocator may return.  Every free address that
\* a stale pointer still refers to is a distinct case; the free addresses
\* nothing refers to are interchangeable, and the least stands for them all.
BoxNew(s) ==
    LET stale == FreeIds(s.heap) \cap Referenced(s)
        fresh == FreeIds(s.heap) \ stale
    IN  stale \cup {n \in fresh : \A m \in fresh : n <= m}

\* p is Some(pointer) and the node it points to has been released.
Dangling(h, p) == p # None /\ h[p].at = "free"

\* (*p).next, (*p).prev, (*p).val read through a raw pointer.
ReadNext(h, p) == IF h[p].at = "node" THEN {h[p].next} ELSE {None} \cup DOMAIN h
ReadPrev(h, p) == IF h[p].at = "node" THEN {h[p].prev} ELSE {None} \cup DOMAIN h
ReadVal(h, p) == IF h[p].at = "node" THEN {h[p].val} ELSE Vals

\* (*p).next = q, (*p).prev = q written through a raw pointer.
WriteNext(h, p, q) == IF h[p].at = "node" THEN [h EXCEPT ![p].next = q] ELSE h
WritePrev(h, p, q) == IF h[p].at = "node" THEN [h EXCEPT ![p].prev = q] ELSE h

\* Dropping the Box made by Box::from_raw(p).
Release(h, p) == [h EXCEPT ![p] = Freed]

\* The nodes some path of next and prev links from the set S leads to.
RECURSIVE Reach(_, _)
Reach(h, S) ==
    LET T == S \cup (({h[n].next : n \in S} \cup {h[n].prev : n \in S}) \ {None})
    IN  IF T = S THEN S ELSE Reach(h, T)

\* The heap h of a list with this head and tail, the content of the nodes
\* the list can no longer reach forgotten.
Settle(h, hd, tl) ==
    LET R == Reach(h, {hd, tl} \ {None})
    IN  [n \in DOMAIN h |-> IF h[n].at = "node" /\ n \notin R THEN Leaked ELSE h[n]]

\* The outcome of one call.
\*   ret      the Option<T> returned (NoneT for a call returning ())
\*   panicked the call ended in panic!
\*   fault    "use_after_free" / "double_free" when the call touched or
\*            released a node that was not allocated
Out(len, hd, tl, h, ret, panicked, fault) ==
    [length |-> len, head |-> hd, tail |-> tl, heap |-> Settle(h, hd, tl),
     ret |-> ret, panicked |-> panicked, fault |-> fault]

\* The list an outcome leaves.
List(o) == [length |-> o.length, head |-> o.head, tail |-> o.tail, heap |-> o.heap]

UafIf(b) == IF b THEN "use_after_free" ELSE "none"

\* ---------------------------------------------------------- u32 arithmetic
\* length is a u32 and the release build wraps it.  A u32 is written as the
\* integer nearest zero that is congruent to it mod 2^32: 2^32 - 1 is -1.
\* Addition and subtraction are then the integers' own; only the order
\* differs: a wrapped (negative) number is above every other.
U32Lt(a, b) == IF (a < 0) = (b < 0) THEN a < b ELSE b < 0

\* ------------------------------------------------------------- insertion
\* insert_at_head without `node.next = self.head`.
InsertAtHeadNoNext(s, obj) ==
    { LET h1 == [s.heap EXCEPT ![n] = NodeNew(obj)]
          h2 == IF s.head # None THEN WritePrev(h1, s.head, n) ELSE h1
          tl == IF s.head # None THEN s.tail ELSE n
      IN  Out(s.length + 1, n, tl, h2, NoneT, FALSE, UafIf(Dangling(h1, s.head)))
      : n \in BoxNew(s) }

InsertAtHead(s, obj) ==
    { LET h1 == [s.heap EXCEPT ![n] = [NodeNew(obj) EXCEPT !.next = s.head]]
          h2 == IF s.head # None THEN WritePrev(h1, s.head, n) ELSE h1
          tl == IF s.head # None THEN s.tail ELSE n
      IN  Out(s.length + 1, n, tl, h2, NoneT, FALSE, UafIf(Dangling(h1, s.head)))
      : n \in BoxNew(s) }

InsertAtTail(s, obj) ==
    { LET h1 == [s.heap EXCEPT ![n] = [NodeNew(obj) EXCEPT !.prev = s.tail]]
          h2 == IF s.tail # None THEN WriteNext(h1, s.tail, n) ELSE h1
          hd == IF s.tail # None THEN s.head ELSE n
      IN  Out(s.length + 1, hd, n, h2, NoneT, FALSE, UafIf(Dangling(h1, s.tail)))
      : n \in BoxNew(s) }

\* The walk of insert_at_ith and delete_ith: `for _ in 0..index`, each round
\* replacing ith_node by (*ith_node).next.  The result: where the walk ends
\* (None when a round found next absent, where the code panics) and whether
\* it read a released node.
RECURSIVE Walk(_, _, _)
Walk(h, p, k) ==
    IF k = 0 THEN {[at |-> p, uaf |-> FALSE]}
    ELSE UNION { IF nx = None
                 THEN {[at |-> None, uaf |-> Dangling(h, p)]}
                 ELSE {[at |-> w.at, uaf |-> w.uaf \/ Dangling(h, p)] : w \in Walk(h, nx, k - 1)}
                 : nx \in ReadNext(h, p) }

\* insert_at_ith's splice without `(*ith_node).prev = Some(node_ptr)`.
InsertInMiddleNoBackLink(s, index, obj) ==
    UNION { IF w.at = None
            THEN {Out(s.length, s.head, s.tail, s.heap, NoneT, TRUE, UafIf(w.uaf))}
            ELSE UNION { LET h1 == [s.heap EXCEPT ![n] = NodeNew(obj)]
                         IN  { IF p # None
                               THEN LET h2 == [h1 EXCEPT ![n].prev = p, ![n].next = w.at]
                                        h3 == WriteNext(h2, p, n)
                                    IN  Out(s.length + 1, s.head, s.tail, h3, NoneT, FALSE,
                                            UafIf(w.uaf \/ Dangling(h1, w.at) \/ Dangling(h2, p)))
                               ELSE Out(s.length, s.head, s.tail, s.heap, NoneT, FALSE,
                                        UafIf(w.uaf \/ Dangling(h1, w.at)))
                               : p \in ReadPrev(h1, w.at) }
                         : n \in BoxNew(s) }
            : w \in Walk(s.heap, s.head, index) }

\* Lines 114-138: the walk to the node at `index`, then the splice before it.
InsertInMiddle(s, index, obj) ==
    UNION { IF w.at = None
            THEN {Out(s.length, s.head, s.tail, s.heap, NoneT, TRUE, UafIf(w.uaf))}
            ELSE UNION { LET h1 == [s.heap EXCEPT ![n] = NodeNew(obj)]
                         IN  { IF p # None
                               THEN LET h2 == [h1 EXCEPT ![n].prev = p, ![n].next = w.at]
                                        h3 == WriteNext(h2, p, n)
                                        h4 == WritePrev(h3, w.at, n)
                                    IN  Out(s.length + 1, s.head, s.tail, h4, NoneT, FALSE,
                                            UafIf(w.uaf \/ Dangling(h1, w.at) \/ Dangling(h2, p)))
                               \* the predecessor is absent: the Box is dropped, nothing changes
                               ELSE Out(s.length, s.head, s.tail, s.heap, NoneT, FALSE,
                                        UafIf(w.uaf \/ Dangling(h1, w.at)))
                               : p \in ReadPrev(h1, w.at) }
                         : n \in BoxNew(s) }
            : w \in Walk(s.heap, s.head, index) }

\* insert_at_ith with its bounds check one too far: `self.length + 1 < index`.
InsertAtIthLooseBound(s, index, obj) ==
    IF U32Lt(s.length + 1, index)
    THEN {Out(s.length, s.head, s.tail, s.heap, NoneT, TRUE, "none")}
    ELSE IF index = 0 \/ s.head = None THEN InsertAtHead(s, obj)
    ELSE IF index = s.length THEN InsertAtTail(s, obj)
    ELSE InsertInMiddle(s, index, obj)

InsertAtIth(s, index, obj) ==
    IF U32Lt(s.length, index)
    THEN {Out(s.length, s.head, s.tail, s.heap, NoneT, TRUE, "none")}
    ELSE IF index = 0 \/ s.head = None THEN InsertAtHead(s, obj)
    ELSE IF index = s.length THEN InsertAtTail(s, obj)
    ELSE InsertInMiddle(s, index, obj)

\* -------------------------------------------------------------- deletion
DeleteHead(s) ==
    IF s.length = 0 \/ s.head = None
    THEN {Out(s.length, s.head, s.tail, s.heap, NoneT, FALSE, "none")}
    ELSE { LET nx == rd[1]
               h1 == IF nx # None THEN WritePrev(s.heap, nx, None) ELSE s.heap
               tl == IF nx # None THEN s.tail ELSE None
               fault == IF Dangling(s.heap, s.head) THEN "double_free"
                        ELSE UafIf(Dangling(s.heap, nx))
           IN  \* checked_add_signed(-1).unwrap_or(0), with length # 0 here
               Out(s.length - 1, nx, tl, Release(h1, s.head), Some(rd[2]), FALSE, fault)
           : rd \in ReadNext(s.heap, s.head) \X ReadVal(s.heap, s.head) }

\* delete_tail with `self.length -= 1` ahead of the look at self.tail.
DeleteTailCountsFirst(s) ==
    IF s.tail = None
    THEN {Out(s.length - 1, s.head, s.tail, s.heap, NoneT, FALSE, "none")}
    ELSE UNION { LET pv == rd[1]
                     h1 == IF pv # None THEN WriteNext(s.heap, pv, None) ELSE s.heap
                     hd == IF pv # None THEN s.head ELSE None
                     h2 == Release(h1, s.tail)
                     fault == IF Dangling(s.heap, s.tail) THEN "double_free"
                              ELSE UafIf(Dangling(s.heap, pv))
                 IN  IF s.length # 0
                     THEN {Out(s.length - 1, hd, pv, h2, Some(rd[2]), FALSE, fault)}
                     \* self.length -= 1 at 0: the release build wraps, the debug
                     \* build panics there and unwinding drops the Box
                     ELSE {Out(s.length - 1, hd, pv, h2, Some(rd[2]), FALSE, fault),
                           Out(s.length, hd, pv, h2, NoneT, TRUE, fault)}
                 : rd \in ReadPrev(s.heap, s.tail) \X ReadVal(s.heap, s.tail) }

DeleteTail(s) ==
    IF s.tail = None
    THEN {Out(s.length, s.head, s.tail, s.heap, NoneT, FALSE, "none")}
    ELSE UNION { LET pv == rd[1]
                     h1 == IF pv # None THEN WriteNext(s.heap, pv, None) ELSE s.heap
                     hd == IF pv # None THEN s.head ELSE None
                     h2 == Release(h1, s.tail)
                     fault == IF Dangling(s.heap, s.tail) THEN "double_free"
                              ELSE UafIf(Dangling(s.heap, pv))
                 IN  IF s.length # 0
                     THEN {Out(s.length - 1, hd, pv, h2, Some(rd[2]), FALSE, fault)}
                     \* self.length -= 1 at 0: the release build wraps, the debug
                     \* build panics there and unwinding drops the Box
                     ELSE {Out(s.length - 1, hd, pv, h2, Some(rd[2]), FALSE, fault),
                           Out(s.length, hd, pv, h2, NoneT, TRUE, fault)}
                 : rd \in ReadPrev(s.heap, s.tail) \X ReadVal(s.heap, s.tail) }

\* delete_ith's removal without `prev.as_mut().next = old_ith.next`.
DeleteInMiddleNoRelink(s, index) ==
    UNION { IF w.at = None
            THEN {Out(s.length, s.head, s.tail, s.heap, NoneT, TRUE, UafIf(w.uaf))}
            ELSE { LET pv == rd[1]
                       nx == rd[2]
                       h2 == IF nx # None THEN WritePrev(s.heap, nx, pv) ELSE s.heap
                       fault == IF Dangling(s.heap, w.at) THEN "double_free"
                                ELSE UafIf(w.uaf \/ Dangling(s.heap, pv) \/ Dangling(s.heap, nx))
                   IN  Out(s.length - 1, s.head, s.tail, Release(h2, w.at), Some(rd[3]),
                           FALSE, fault)
                   : rd \in ReadPrev(s.heap, w.at) \X ReadNext(s.heap, w.at)
                            \X ReadVal(s.heap, w.at) }
            : w \in Walk(s.heap, s.head, index) }

\* Lines 187-206: the walk to the node at `index`, then its removal.
DeleteInMiddle(s, index) ==
    UNION { IF w.at = None
            THEN {Out(s.length, s.head, s.tail, s.heap, NoneT, TRUE, UafIf(w.uaf))}
            ELSE { LET pv == rd[1]
                       nx == rd[2]
                       h1 == IF pv # None THEN WriteNext(s.heap, pv, nx) ELSE s.heap
                       h2 == IF nx # None THEN WritePrev(h1, nx, pv) ELSE h1
                       fault == IF Dangling(s.heap, w.at) THEN "double_free"
                                ELSE UafIf(w.uaf \/ Dangling(s.heap, pv) \/ Dangling(s.heap, nx))
                   IN  Out(s.length - 1, s.head, s.tail, Release(h2, w.at), Some(rd[3]),
                           FALSE, fault)
                   : rd \in ReadPrev(s.heap, w.at) \X ReadNext(s.heap, w.at)
                            \X ReadVal(s.heap, w.at) }
            : w \in Walk(s.heap, s.head, index) }

DeleteIth(s, index) ==
    IF U32Lt(s.length, index)
    THEN {Out(s.length, s.head, s.tail, s.heap, NoneT, TRUE, "none")}
    ELSE IF index = 0 \/ s.head = None THEN DeleteHead(s)
    ELSE IF s.length = index THEN DeleteTail(s)
    ELSE DeleteInMiddle(s, index)

\* ---------------------------------------------------------------- lookup
\* get_ith_node(node, index): Some(node) at index 0, else the same question of
\* (*node).next with index - 1.  The set of nodes the call can return.
\* get_ith_node matching `index <= 0` where the source matches `0`.
RECURSIVE GetIthNodeNegAsZero(_, _, _)
GetIthNodeNegAsZero(h, node, index) ==
    IF node = None THEN {[at |-> None, uaf |-> FALSE]}
    ELSE IF index <= 0 THEN {[at |-> node, uaf |-> FALSE]}
    ELSE UNION { {[at |-> w.at, uaf |-> w.uaf \/ Dangling(h, node)]
                  : w \in GetIthNodeNegAsZero(h, nx, index - 1)}
                 : nx \in ReadNext(h, node) }

\* get_ith_node(node, index): the pointer found (None when the chain ends
\* first) and whether the search read a released node.
RECURSIVE GetIthNode(_, _, _)
GetIthNode(h, node, index) ==
    IF node = None THEN {[at |-> None, uaf |-> FALSE]}
    ELSE IF index = 0 THEN {[at |-> node, uaf |-> FALSE]}
    ELSE UNION { {[at |-> w.at, uaf |-> w.uaf \/ Dangling(h, node)]
                  : w \in GetIthNode(h, nx, index - 1)}
                 : nx \in ReadNext(h, node) }

\* get(index): ret is the Option<&T> returned, as the value referred to.
Get(s, index) ==
    UNION { IF w.at = None
            THEN {Out(s.length, s.head, s.tail, s.heap, NoneT, FALSE, UafIf(w.uaf))}
            ELSE {Out(s.length, s.head, s.tail, s.heap, Some(v), FALSE,
                      UafIf(w.uaf \/ Dangling(s.heap, w.at)))
                  : v \in ReadVal(s.heap, w.at)}
            : w \in GetIthNode(s.heap, s.head, index) }

\* Drop::drop: `while self.delete_head().is_some() {}`.
RECURSIVE DropList(_)
DropList(s) ==
    UNION { IF o.ret = NoneT THEN {o}
            ELSE {[d EXCEPT !.fault = IF o.fault # "none" THEN o.fault ELSE d.fault]
                  : d \in DropList(List(o))}
            : o \in DeleteHead(s) }

\* ------------------------------------------------------------------ Queue
\* queue.rs: Queue<T> wraps std::collections::LinkedList<T>, here the
\* sequence of its elements from front to back.  Each operator gives the
\* elements after the call and what the call returns.
QueueNew == <<>>
\* enqueue: self.elements.push_back(value)
Enqueue(q, value) == [elements |-> Append(q, value), ret |-> NoneT]
\* dequeue as self.elements.pop_back().
DequeueBack(q) ==
    IF q = <<>> THEN [elements |-> q, ret |-> NoneT]
    ELSE [elements |-> SubSeq(q, 1, Len(q) - 1), ret |-> Some(q[Len(q)])]
\* dequeue: self.elements.pop_front()
Dequeue(q) ==
    IF q = <<>> THEN [elements |-> q, ret |-> NoneT]
    ELSE [elements |-> Tail(q), ret |-> Some(Head(q))]
\* peek_front: self.elements.front()
PeekFront(q) == [elements |-> q, ret |-> IF q = <<>> THEN NoneT ELSE Some(q[1])]
\* peek_back: self.elements.back()
PeekBack(q) == [elements |-> q, ret |-> IF q = <<>> THEN NoneT ELSE Some(q[Len(q)])]
\* len: self.elements.len()
QueueLen(q) == [elements |-> q, ret |-> Some(Len(q))]
\* is_empty: self.elements.is_empty()
IsEmpty(q) == [elements |-> q, ret |-> Some(q = <<>>)]
\* drain that clears nothing.
DrainNothing(q) == [elements |-> q, ret |-> NoneT]
\* drain: self.elements.clear()
Drain(q) == [elements |-> <<>>, ret |-> NoneT]

\* ------------------------------------------------------- BinarySearchTree
\* binary_search_tree.rs: a tree is [value, left, right], value an Option<T>
\* and left, right an Option<Box<BinarySearchTree<T>>>.
BinarySearchTreeNew == [value |-> NoneT, left |-> NoneT, right |-> NoneT]

\* search descending to the right of a greater key and the left of a lesser.
RECURSIVE SearchWrongSide(_, _)
SearchWrongSide(t, value) ==
    IF t.value = NoneT THEN FALSE
    ELSE IF t.value[1] = value THEN TRUE
    ELSE IF t.value[1] > value
         THEN IF t.right # NoneT THEN SearchWrongSide(t.right[1], value) ELSE FALSE
         ELSE IF t.left # NoneT THEN SearchWrongSide(t.left[1], value) ELSE FALSE

RECURSIVE Search(_, _)
Search(t, value) ==
    IF t.value = NoneT THEN FALSE
    ELSE IF t.value[1] = value THEN TRUE
    ELSE IF t.value[1] > value
         THEN IF t.left # NoneT THEN Search(t.left[1], value) ELSE FALSE
         ELSE IF t.right # NoneT THEN Search(t.right[1], value) ELSE FALSE

RECURSIVE Insert(_, _)
Insert(t, value) ==
    IF t.value = NoneT THEN [t EXCEPT !.value = Some(value)]
    ELSE IF value < t.value[1]
         THEN IF t.left # NoneT
              THEN [t EXCEPT !.left = Some(Insert(t.left[1], value))]
              ELSE [t EXCEPT !.left = Some([BinarySearchTreeNew EXCEPT !.value = Some(value)])]
         ELSE IF t.right # NoneT
              THEN [t EXCEPT !.right = Some(Insert(t.right[1], value))]
              ELSE [t EXCEPT !.right = Some([BinarySearchTreeNew EXCEPT !.value = Some(value)])]

\* minimum that looks one level down only.
MinimumOfChild(t) ==
    IF t.left # NoneT THEN t.left[1].value ELSE t.value

RECURSIVE Minimum(_)
Minimum(t) ==
    IF t.left # NoneT THEN Minimum(t.left[1]) ELSE t.value

RECURSIVE Maximum(_)
Maximum(t) ==
    IF t.right # NoneT THEN Maximum(t.right[1]) ELSE t.value

\* floor that returns what the right subtree found, with no fall back to
\* the key.
RECURSIVE FloorNoFallBack(_, _)
FloorNoFallBack(t, value) ==
    IF t.value = NoneT THEN NoneT
    ELSE IF t.value[1] > value
         THEN IF t.left # NoneT THEN FloorNoFallBack(t.left[1], value) ELSE NoneT
    ELSE IF t.value[1] < value
         THEN IF t.right # NoneT THEN FloorNoFallBack(t.right[1], value) ELSE t.value
    ELSE t.value

RECURSIVE Floor(_, _)
Floor(t, value) ==
    IF t.value = NoneT THEN NoneT
    ELSE IF t.value[1] > value
         THEN IF t.left # NoneT THEN Floor(t.left[1], value) ELSE NoneT
    ELSE IF t.value[1] < value
         THEN IF t.right # NoneT
              THEN LET val == Floor(t.right[1], value)
                   IN  IF val # NoneT THEN val ELSE t.value
              ELSE t.value
    ELSE t.value

RECURSIVE Ceil(_, _)
Ceil(t, value) ==
    IF t.value = NoneT THEN NoneT
    ELSE IF t.value[1] < value
         THEN IF t.right # NoneT THEN Ceil(t.right[1], value) ELSE NoneT
    ELSE IF t.value[1] > value
         THEN IF t.left # NoneT
              THEN LET val == Ceil(t.left[1], value)
                   IN  IF val # NoneT THEN val ELSE t.value
              ELSE t.value
    ELSE t.value

\* BinarySearchTreeIter: the stack is a sequence of (references to) subtrees,
\* its last element the top.
RECURSIVE StackPushLeft(_)
StackPushLeft(st) ==
    IF st[Len(st)].left # NoneT
    THEN StackPushLeft(Append(st, st[Len(st)].left[1]))
    ELSE st

\* BinarySearchTreeIter::new(tree)
IterNew(t) == StackPushLeft(<<t>>)

\* next without the stack_push_left() after pushing the right child.
IterNextNoPushLeft(st) ==
    IF st = <<>> THEN [stack |-> st, ret |-> NoneT]
    ELSE LET node == st[Len(st)]
             popped == SubSeq(st, 1, Len(st) - 1)
         IN  [stack |-> IF node.right # NoneT
                        THEN Append(popped, node.right[1])
                        ELSE popped,
              ret |-> node.value]

\* Iterator::next: the stack after the call and the Option<&T> returned.
IterNext(st) ==
    IF st = <<>> THEN [stack |-> st, ret |-> NoneT]
    ELSE LET node == st[Len(st)]
             popped == SubSeq(st, 1, Len(st) - 1)
         IN  [stack |-> IF node.right # NoneT
                        THEN StackPushLeft(Append(popped, node.right[1]))
                        ELSE popped,
              ret |-> node.value]

\* ------------------------------------------------------------ the machine
\* No call is in progress.
Idle == [op |-> "idle", index |-> 0, obj |-> 0, ret |-> NoneT,
         panicked |-> FALSE, fault |-> "none"]

\* The call `op`, made while no other is in progress, ends with the outcome o.
Call(op, index, obj, o) ==
    /\ length' = o.length
    /\ head' = o.head
    /\ tail' = o.tail
    /\ heap' = o.heap
    /\ last' = [op |-> op, index |-> index, obj |-> obj, ret |-> o.ret,
                panicked |-> o.panicked, fault |-> o.fault]
    /\ UNCHANGED <<queueVars, treeVars>>

\* LinkedList::new()
ListNew(ids) ==
    /\ length = 0
    /\ head = None
    /\ tail = None
    /\ heap = [n \in ids |-> Freed]

\* The parts of the state a run does not use.
NoScript == script = <<>> /\ pc = 0
NoQueue == elements = QueueNew /\ pending = <<>>
NoTree == tree = BinarySearchTreeNew /\ inserted = <<>> /\ stack = NoneT /\ yielded = <<>>

Init ==
    /\ ListNew(NodeIds)
    /\ last = Idle
    /\ NoScript /\ NoQueue /\ NoTree

insert_at_head ==
    /\ last = Idle
    /\ \E obj \in Vals : \E o \in InsertAtHead(Self, obj) : Call("insert_at_head", 0, obj, o)
    /\ UNCHANGED scriptVars

insert_at_tail ==
    /\ last = Idle
    /\ \E obj \in Vals : \E o \in InsertAtTail(Self, obj) : Call("insert_at_tail", 0, obj, o)
    /\ UNCHANGED scriptVars

insert_at_ith ==
    /\ last = Idle
    /\ \E index \in Indices : \E obj \in Vals :
           \E o \in InsertAtIth(Self, index, obj) : Call("insert_at_ith", index, obj, o)
    /\ UNCHANGED scriptVars

delete_head ==
    /\ last = Idle
    /\ \E o \in DeleteHead(Self) : Call("delete_head", 0, 0, o)
    /\ UNCHANGED scriptVars

delete_tail ==
    /\ last = Idle
    /\ \E o \in DeleteTail(Self) : Call("delete_tail", 0, 0, o)
    /\ UNCHANGED scriptVars

delete_ith ==
    /\ last = Idle
    /\ \E index \in Indices : \E o \in DeleteIth(Self, index) : Call("delete_ith", index, 0, o)
    /\ UNCHANGED scriptVars

get ==
    /\ last = Idle
    /\ \E index \in GetIndices : \E o \in Get(Self, index) : Call("get", index, 0, o)
    /\ UNCHANGED scriptVars

\* The list goes out of scope: no call follows.
drop ==
    /\ last = Idle
    /\ \E o \in DropList(Self) : Call("drop", 0, 0, o)
    /\ UNCHANGED scriptVars

\* The call returns to the caller, which goes on to its next call.
Return ==
    /\ last # Idle
    /\ last.op # "drop"
    /\ ~last.panicked
    /\ last.fault = "none"
    /\ last' = Idle
    /\ UNCHANGED <<listVars, scriptVars, queueVars, treeVars>>

Next ==
    \/ insert_at_head
    \/ insert_at_tail
    \/ insert_at_ith
    \/ delete_head
    \/ delete_tail
    \/ delete_ith
    \/ get
    \/ drop
    \/ Return

Spec == Init /\ [][Next]_vars

\* ------------------------------------------------------- a scripted run
\* tests::insert_at_ith_and_delete_at_ith_in_the_middle, for any four
\* values: insert_at_ith at the indices 0, 1, 1, 1, then delete_ith(2), then
\* insert_at_ith(2, x) for any x.
ScriptVals == 0..ScriptMaxVal
ScriptIndex == <<0, 1, 1, 1>>

InitScript ==
    /\ ListNew(1..ScriptNodes)
    /\ last = Idle
    /\ script \in [1..4 -> ScriptVals]
    /\ pc = 0
    /\ NoQueue /\ NoTree

script_insert ==
    /\ pc < 4 /\ ~last.panicked /\ last.fault = "none"
    /\ \E o \in InsertAtIth(Self, ScriptIndex[pc + 1], script[pc + 1]) :
           Call("insert_at_ith", ScriptIndex[pc + 1], script[pc + 1], o)
    /\ pc' = pc + 1 /\ script' = script

script_delete ==
    /\ pc = 4 /\ ~last.panicked /\ last.fault = "none"
    /\ \E o \in DeleteIth(Self, 2) : Call("delete_ith", 2, 0, o)
    /\ pc' = pc + 1 /\ script' = script

script_reinsert ==
    /\ pc = 5 /\ ~last.panicked /\ last.fault = "none"
    /\ \E x \in ScriptVals : \E o \in InsertAtIth(Self, 2, x) :
           Call("insert_at_ith", 2, x, o)
    /\ pc' = pc + 1 /\ script' = script

NextScript == script_insert \/ script_delete \/ script_reinsert
SpecScript == InitScript /\ [][NextScript]_vars

\* ------------------------------------------------------ the Queue machine
\* Queue::new(), nothing enqueued yet.
InitQueue ==
    /\ elements = QueueNew
    /\ pending = <<>>
    /\ last = Idle
    /\ ListNew(NodeIds) /\ NoScript /\ NoTree

\* The call `op` of the Queue ends with the outcome r.
QueueCall(op, value, r) ==
    /\ elements' = r.elements
    /\ last' = [op |-> op, index |-> 0, obj |-> value, ret |-> r.ret,
                panicked |-> FALSE, fault |-> "none"]
    /\ UNCHANGED <<listVars, scriptVars, treeVars>>

enqueue ==
    /\ last = Idle
    /\ Len(elements) < MaxQueue
    /\ \E value \in Vals :
           /\ QueueCall("enqueue", value, Enqueue(elements, value))
           /\ pending' = Append(pending, value)

dequeue ==
    /\ last = Idle
    /\ QueueCall("dequeue", 0, Dequeue(elements))
    /\ pending' = IF pending = <<>> THEN pending ELSE Tail(pending)

peek_front ==
    /\ last = Idle
    /\ QueueCall("peek_front", 0, PeekFront(elements))
    /\ UNCHANGED pending

peek_back ==
    /\ last = Idle
    /\ QueueCall("peek_back", 0, PeekBack(elements))
    /\ UNCHANGED pending

len ==
    /\ last = Idle
    /\ QueueCall("len", 0, QueueLen(elements))
    /\ UNCHANGED pending

is_empty ==
    /\ last = Idle
    /\ QueueCall("is_empty", 0, IsEmpty(elements))
    /\ UNCHANGED pending

drain ==
    /\ last = Idle
    /\ QueueCall("drain", 0, Drain(elements))
    /\ pending' = <<>>

NextQueue ==
    \/ enqueue
    \/ dequeue
    \/ peek_front
    \/ peek_back
    \/ len
    \/ is_empty
    \/ drain
    \/ Return

SpecQueue == InitQueue /\ [][NextQueue]_vars

\* --------------------------------------------- the BinarySearchTree machine
Keys == 0..MaxKey

\* BinarySearchTree::new(), nothing inserted, no iterator.
InitTree ==
    /\ tree = BinarySearchTreeNew
    /\ inserted = <<>>
    /\ stack = NoneT
    /\ yielded = <<>>
    /\ last = Idle
    /\ ListNew(NodeIds) /\ NoScript /\ NoQueue

\* The call `op` on the tree or its iterator returns ret.
TreeCall(op, value, ret) ==
    /\ last' = [op |-> op, index |-> 0, obj |-> value, ret |-> ret,
                panicked |-> FALSE, fault |-> "none"]
    /\ UNCHANGED <<listVars, scriptVars, queueVars>>

\* insert takes &mut self: there is no iterator borrowing the tree.
insert ==
    /\ last = Idle /\ stack = NoneT
    /\ Len(inserted) < MaxInserts
    /\ \E value \in Keys :
           /\ tree' = Insert(tree, value)
           /\ inserted' = Append(inserted, value)
           /\ TreeCall("insert", value, NoneT)
    /\ UNCHANGED <<stack, yielded>>

search ==
    /\ last = Idle /\ stack = NoneT
    /\ \E value \in Keys : TreeCall("search", value, Some(Search(tree, value)))
    /\ UNCHANGED treeVars

minimum ==
    /\ last = Idle /\ stack = NoneT
    /\ TreeCall("minimum", 0, Minimum(tree))
    /\ UNCHANGED treeVars

maximum ==
    /\ last = Idle /\ stack = NoneT
    /\ TreeCall("maximum", 0, Maximum(tree))
    /\ UNCHANGED treeVars

floor ==
    /\ last = Idle /\ stack = NoneT
    /\ \E value \in Keys : TreeCall("floor", value, Floor(tree, value))
    /\ UNCHANGED treeVars

ceil ==
    /\ last = Idle /\ stack = NoneT
    /\ \E value \in Keys : TreeCall("ceil", value, Ceil(tree, value))
    /\ UNCHANGED treeVars

iter ==
    /\ last = Idle /\ stack = NoneT
    /\ stack' = Some(IterNew(tree))
    /\ yielded' = <<>>
    /\ TreeCall("iter", 0, NoneT)
    /\ UNCHANGED <<tree, inserted>>

next ==
    /\ last = Idle /\ stack # NoneT
    /\ Len(yielded) < Len(inserted) + MaxNextAfterEnd
    /\ stack' = Some(IterNext(stack[1]).stack)
    /\ yielded' = Append(yielded, IterNext(stack[1]).ret)
    /\ TreeCall("next", 0, IterNext(stack[1]).ret)
    /\ UNCHANGED <<tree, inserted>>

NextTree ==
    \/ insert
    \/ search
    \/ minimum
    \/ maximum
    \/ floor
    \/ ceil
    \/ iter
    \/ next
    \/ Return
SpecTree == InitTree /\ [][NextTree]_vars

\* ------------------------------------------------------------ observation
\* The nodes met walking next from p, until next is absent: at most `fuel`
\* of them (a longer walk is one that went round a cycle).  The walk stops
\* before a node that is not allocated.
RECURSIVE WalkNext(_, _, _)
WalkNext(h, p, fuel) ==
    IF p = None \/ fuel = 0 \/ h[p].at # "node" THEN <<>>
    ELSE <<p>> \o WalkNext(h, h[p].next, fuel - 1)

\* The same walking prev.
RECURSIVE WalkPrev(_, _, _)
WalkPrev(h, p, fuel) ==
    IF p = None \/ fuel = 0 \/ h[p].at # "node" THEN <<>>
    ELSE <<p>> \o WalkPrev(h, h[p].prev, fuel - 1)

\* The chain: the nodes of the list s in forward order, from head.
Forward(s) == WalkNext(s.heap, s.head, MaxNodes + 1)
\* The nodes of the list s in backward order, from tail.
Backward(s) == WalkPrev(s.heap, s.tail, MaxNodes + 1)

\* The values of the list s in forward order.
Values(s) == [k \in 1..Len(Forward(s)) |-> s.heap[Forward(s)[k]].val]

Reverse(q) == [k \in 1..Len(q) |-> q[Len(q) + 1 - k]]
\* q with x put at position i (counted from 0), q without its position i.
InsertAt(q, i, x) == SubSeq(q, 1, i) \o <<x>> \o SubSeq(q, i + 1, Len(q))
RemoveAt(q, i) == SubSeq(q, 1, i) \o SubSeq(q, i + 2, Len(q))

\* A step that is a call (the call's outcome is in the primed variables).
Calls(op) == last = Idle /\ last'.op = op

\* ------------------------------------------------------------------ claims

\* C1: in every reachable state, length equals the number of nodes visited
\* by walking next from head until absence.
C1_LengthIsChainCount == length = Len(Forward(Self))

\* C2: in every reachable state of a non-empty list, walking next from head
\* visits exactly length nodes, the last of them the node tail refers to, and
\* walking prev from tail visits the same nodes in the reverse order, ending
\* at the node head refers to.
C2_ForwardIsBackwardReversed ==
    head # None =>
        /\ Len(Forward(Self)) = length
        /\ Forward(Self)[Len(Forward(Self))] = tail
        /\ Backward(Self) = Reverse(Forward(Self))

\* C3: no call releases a node twice or touches a released node, and head,
\* tail and every link of a node in the chain refer only to nodes that are
\* allocated and in the chain.
C3_NoDanglingPointer ==
    LET chain == {Forward(Self)[k] : k \in 1..Len(Forward(Self))}
    IN  /\ last.fault = "none"
        /\ {head, tail} \subseteq chain \cup {None}
        /\ \A n \in chain : {heap[n].next, heap[n].prev} \subseteq chain \cup {None}

\* C4: in every reachable state, length = 0 iff head is absent iff tail is
\* absent, and whenever length = 1, head and tail are the same node.
C4_EmptyAndSingleton ==
    /\ (length = 0) <=> (head = None)
    /\ (head = None) <=> (tail = None)
    /\ length = 1 => head = tail

\* C5: in every reachable state, each node n of the chain has n.next.prev = n
\* when n.next is present and n.prev.next = n when n.prev is present; the
\* first node's prev is absent and the last node's next is absent.
C5_LinksAgree ==
    LET f == Forward(Self)
    IN  /\ Len(f) <= MaxNodes
        /\ \A k \in 1..Len(f) :
              /\ heap[f[k]].next # None =>
                    /\ heap[heap[f[k]].next].at = "node"
                    /\ heap[heap[f[k]].next].prev = f[k]
              /\ heap[f[k]].prev # None =>
                    /\ heap[heap[f[k]].prev].at = "node"
                    /\ heap[heap[f[k]].prev].next = f[k]
        /\ f # <<>> => heap[f[1]].prev = None /\ heap[f[Len(f)]].next = None

\* A chain of three nodes whose middle one a splice of insert_at_ith put in.
C5_Witness ==
    /\ last.op = "insert_at_ith" /\ last.index = 1 /\ ~last.panicked
    /\ Len(Forward(Self)) = 3
    /\ heap[Forward(Self)[2]].val = last.obj

\* C6: insert_at_ith and delete_ith called with an index above length panic,
\* and leave length, head, tail and every node as they were.
C6_IndexAboveLengthPanics ==
    [][(Calls("insert_at_ith") \/ Calls("delete_ith")) /\ U32Lt(length, last'.index)
        => last'.panicked /\ UNCHANGED <<length, head, tail, heap>>]_vars

\* insert_at_ith has refused an index above the length of a list of one node.
C6_Witness ==
    /\ last.op = "insert_at_ith" /\ last.panicked
    /\ length = 1 /\ last.index = 2 /\ Len(Forward(Self)) = 1

\* C7: insert_at_ith(i, v) with 0 <= i <= length does not panic, leaves the
\* forward order of values that of the prior list with v put at position i,
\* and get(i) then returns v.
C7_InsertAtIthPlaces ==
    [][Calls("insert_at_ith") /\ ~U32Lt(length, last'.index)
        => /\ ~last'.panicked
           /\ Values(Self') = InsertAt(Values(Self), last'.index, last'.obj)
           /\ {o.ret : o \in Get(Self', last'.index)} = {Some(last'.obj)}]_vars

\* C8: delete_ith(i) with 0 <= i < length returns the value that was at
\* position i, decreases length by 1 and leaves the other values in their
\* prior order.
C8_DeleteIthRemoves ==
    [][Calls("delete_ith") /\ U32Lt(last'.index, length)
        => /\ ~last'.panicked
           /\ last'.index < Len(Values(Self))
           /\ last'.ret = Some(Values(Self)[last'.index + 1])
           /\ length' = length - 1
           /\ Values(Self') = RemoveAt(Values(Self), last'.index)]_vars

\* C9: on a non-empty list delete_ith(length) does not fail: it does what
\* delete_tail does, removing and returning the last value of the list and
\* decreasing length by 1.
C9_DeleteIthAtLengthIsDeleteTail ==
    [][Calls("delete_ith") /\ length # 0 /\ last'.index = length
        => /\ ~last'.panicked /\ last'.fault = "none"
           /\ \E o \in DeleteTail(Self) :
                 o.ret = last'.ret /\ o.panicked = last'.panicked /\ List(o) = Self'
           /\ Values(Self) # <<>>
           /\ last'.ret = Some(Values(Self)[Len(Values(Self))])
           /\ Values(Self') = SubSeq(Values(Self), 1, Len(Values(Self)) - 1)
           /\ length' = length - 1]_vars

\* C10: insert_at_tail(v) with delete_tail() called next: delete_tail returns
\* v, and length, the order of the values, head, tail and every link are
\* what they were before the insert.
C10_InsertThenDeleteTailRestores ==
    [][Calls("insert_at_tail")
        => \A o \in DeleteTail(Self') :
              /\ o.ret = Some(last'.obj)
              /\ ~o.panicked
              /\ List(o) = Self]_vars

\* C11: insert_at_head(v) with delete_head() called next: delete_head
\* returns v, and length and the forward order of the values are what they
\* were before the insert.
C11_InsertThenDeleteHeadRestores ==
    [][Calls("insert_at_head")
        => \A o \in DeleteHead(Self') :
              /\ o.ret = Some(last'.obj)
              /\ ~o.panicked /\ o.fault = "none"
              /\ o.length = length
              /\ Values(List(o)) = Values(Self)]_vars

\* insert_at_head has put a value in front of two others, and delete_head
\* would now return it.
C11_Witness ==
    /\ last.op = "insert_at_head" /\ last.fault = "none"
    /\ Len(Values(Self)) = 3 /\ length = 3
    /\ \E o \in DeleteHead(Self) : o.ret = Some(last.obj) /\ Len(Values(List(o))) = 2

\* C12: on a non-empty list delete_tail removes and returns the value that
\* is last in forward order (the one get(length - 1) returns), decreases
\* length by 1, and leaves tail at the former predecessor of the removed
\* node, or absent when the list became empty.
C12_DeleteTailRemovesLast ==
    [][Calls("delete_tail") /\ length # 0 /\ head # None
        => LET f == Forward(Self)
           IN  /\ ~last'.panicked /\ last'.fault = "none"
               /\ last'.ret = Some(Values(Self)[Len(f)])
               /\ {o.ret : o \in Get(Self, length - 1)} = {last'.ret}
               /\ length' = length - 1
               /\ Values(Self') = SubSeq(Values(Self), 1, Len(f) - 1)
               /\ tail' = IF Len(f) >= 2 THEN f[Len(f) - 1] ELSE None]_vars

\* C13: get(i) with i < 0 or i >= length returns None, does not panic and
\* leaves the list as it was.
C13_GetOutOfRangeIsNone ==
    [][Calls("get") /\ (last'.index < 0 \/ ~U32Lt(last'.index, length))
        => /\ last'.ret = NoneT
           /\ ~last'.panicked /\ last'.fault = "none"
           /\ UNCHANGED listVars]_vars

\* get has been asked for the position just past the end of a list of two
\* values.
C13_Witness ==
    /\ last.op = "get" /\ last.index = length /\ length = 2
    /\ Len(Values(Self)) = 2 /\ last.ret = NoneT

\* C14: on an empty list delete_head(), delete_tail() and delete_ith(0)
\* return None, do not fail, and leave length 0 and head and tail absent.
C14_DeleteOnEmptyIsNone ==
    [][(Calls("delete_head") \/ Calls("delete_tail")
            \/ (Calls("delete_ith") /\ last'.index = 0)) /\ length = 0
        => /\ last'.ret = NoneT
           /\ ~last'.panicked /\ last'.fault = "none"
           /\ length' = 0 /\ head' = None /\ tail' = None]_vars

\* delete_tail has been called on a list with no element, its nodes all
\* released.
C14_Witness ==
    /\ last.op = "delete_tail" /\ last.ret = NoneT
    /\ length = 0 /\ head = None /\ tail = None
    /\ \A n \in DOMAIN heap : heap[n].at = "free"

\* C15: dropping the list ends after at most length successful delete_head
\* calls, and when it ends every node the list allocated and no delete
\* removed has been released exactly once: none is still allocated, none was
\* released twice.
C15_DropReleasesEveryNode ==
    [][Calls("drop")
        => /\ last'.fault = "none" /\ ~last'.panicked
           /\ \A n \in DOMAIN heap : heap'[n].at = "free"
           /\ Cardinality({n \in DOMAIN heap : heap[n].at # "free" /\ heap'[n].at = "free"})
                 <= length]_vars

\* C16 as the specification states it: from an empty list, inserting 0, 1,
\* 2, 3 in that order at the indices 0, 1, 1, 1 yields the forward order
\* 0,2,1,3; delete_ith(2) then returns 1; inserting 1 at index 2 then yields
\* 0,1,2,3.
C16_ScriptAsStated ==
    script = <<0, 1, 2, 3>> =>
        /\ pc = 4 => Values(Self) = <<0, 2, 1, 3>>
        /\ pc = 5 => last.ret = Some(1)
        /\ (pc = 6 /\ last.obj = 1) => Values(Self) = <<0, 1, 2, 3>>

\* C16 amended: from an empty list, inserting 0, 1, 2, 3 in that order at the
\* indices 0, 1, 1, 1 yields the forward order 0,3,2,1 (each insertion at
\* index 1 lands right behind the first value); delete_ith(2) then removes
\* and returns 2, leaving 0,3,1; inserting 1 at index 2 then yields 0,3,1,1.
C16_ScriptAsCoded ==
    script = <<0, 1, 2, 3>> =>
        /\ ~last.panicked /\ last.fault = "none"
        /\ pc = 4 => Values(Self) = <<0, 3, 2, 1>> /\ length = 4
        /\ pc = 5 => last.ret = Some(2) /\ Values(Self) = <<0, 3, 1>> /\ length = 3
        /\ (pc = 6 /\ last.obj = 1) => Values(Self) = <<0, 3, 1, 1>> /\ length = 4

\* The script of C16 has run to its end.
C16_Witness ==
    /\ script = <<0, 1, 2, 3>> /\ pc = 6
    /\ last.op = "insert_at_ith" /\ last.index = 2 /\ last.obj = 1
    /\ Values(Self) = <<0, 3, 1, 1>>

\* C17: every dequeue returns the oldest value enqueued and not yet
\* dequeued, or None when there is none; peek_front returns what the next
\* dequeue would return and peek_back the most recently enqueued of the
\* remaining values, and neither changes the queue.
C17_QueueIsFifo ==
    [][/\ Calls("dequeue") =>
             last'.ret = IF pending = <<>> THEN NoneT ELSE Some(pending[1])
       /\ Calls("peek_front") =>
             /\ last'.ret = Dequeue(elements').ret
             /\ last'.ret = IF pending = <<>> THEN NoneT ELSE Some(pending[1])
             /\ elements' = elements
       /\ Calls("peek_back") =>
             /\ last'.ret = IF pending = <<>> THEN NoneT ELSE Some(pending[Len(pending)])
             /\ elements' = elements]_vars

\* dequeue has returned 0, enqueued before the 1 that remains.
C17_Witness ==
    /\ last.op = "dequeue" /\ last.ret = Some(0)
    /\ elements = <<1>> /\ pending = <<1>>

\* C18: len() returns the number of values enqueued and not dequeued since
\* the last drain, is_empty() returns whether len() is 0, and right after
\* drain() len() is 0, is_empty() is true and dequeue() returns None.
C18_QueueLen ==
    [][/\ Calls("len") => last'.ret = Some(Len(pending))
       /\ Calls("is_empty") =>
             last'.ret = Some(QueueLen(elements).ret = Some(0))
       /\ Calls("drain") =>
             /\ QueueLen(elements').ret = Some(0)
             /\ IsEmpty(elements').ret = Some(TRUE)
             /\ Dequeue(elements').ret = NoneT]_vars

\* len has counted the two values enqueued and not yet dequeued.
C18_Witness ==
    /\ last.op = "len" /\ last.ret = Some(2)
    /\ Len(pending) = 2 /\ Len(elements) = 2

\* q in non-decreasing order.
RECURSIVE Sorted(_)
Sorted(q) ==
    IF q = <<>> THEN q
    ELSE LET m == CHOOSE i \in 1..Len(q) : \A j \in 1..Len(q) : q[i] <= q[j]
         IN  <<q[m]>> \o Sorted(RemoveAt(q, m - 1))

\* C19: search(v) returns true iff v equals some value that was inserted;
\* on an empty tree it returns false for every v.
C19_SearchFindsInserted ==
    [][Calls("search")
        => last'.ret = Some(\E k \in 1..Len(inserted) : inserted[k] = last'.obj)]_vars

\* search has found a value that sits in the right subtree of a tree with
\* both subtrees.
C19_Witness ==
    /\ last.op = "search" /\ last.ret = Some(TRUE)
    /\ inserted = <<1, 0, 2>> /\ last.obj = 2

\* C20: the calls of next on iter() return the inserted values, each as
\* often as it was inserted, in non-decreasing order, and None on every call
\* after those; on an empty tree the first call returns None.
C20_IterIsSorted ==
    stack # NoneT =>
        \A k \in 1..Len(yielded) :
            yielded[k] = IF k <= Len(inserted) THEN Some(Sorted(inserted)[k]) ELSE NoneT

\* The iterator of a tree holding a value twice has been run to its end and
\* called twice more.
C20_Witness ==
    /\ stack # NoneT /\ inserted = <<1, 0, 1, 2>>
    /\ yielded = <<Some(0), Some(1), Some(1), Some(2), NoneT, NoneT>>

\* The values that were inserted.
Inserted == {inserted[k] : k \in 1..Len(inserted)}
\* Some of the greatest, the least value of S, None when S is empty.
Greatest(S) == IF S = {} THEN NoneT ELSE Some(CHOOSE x \in S : \A y \in S : y <= x)
Least(S) == IF S = {} THEN NoneT ELSE Some(CHOOSE x \in S : \A y \in S : x <= y)

\* C21: floor(v) returns the greatest inserted value that is <= v and
\* ceil(v) the least inserted value that is >= v, each None exactly when
\* there is no such value.
C21_FloorAndCeil ==
    [][/\ Calls("floor") => last'.ret = Greatest({x \in Inserted : x <= last'.obj})
       /\ Calls("ceil") => last'.ret = Least({x \in Inserted : x >= last'.obj})]_vars

\* floor(1) has found nothing in the right subtree and has fallen back to
\* the key 0.
C21_Witness ==
    /\ last.op = "floor" /\ last.obj = 1 /\ last.ret = Some(0)
    /\ inserted = <<0, 2>>

\* C22: minimum() returns the least inserted value and maximum() the
\* greatest; both return None on an empty tree.
C22_MinimumAndMaximum ==
    [][/\ Calls("minimum") => last'.ret = Least(Inserted)
       /\ Calls("maximum") => last'.ret = Greatest(Inserted)]_vars

\* minimum has gone down two left children.
C22_Witness ==
    /\ last.op = "minimum" /\ last.ret = Some(0)
    /\ inserted = <<2, 1, 0>>

\* C23: insert_at_ith(i, v) with 0 <= i <= length always succeeds: it does
\* not panic in the walk, does not take the branch where the node found has
\* no predecessor (which inserts nothing), and increases length by exactly 1.
C23_InsertAtIthSucceeds ==
    [][Calls("insert_at_ith") /\ ~U32Lt(length, last'.index)
        => /\ ~last'.panicked
           /\ length' = length + 1]_vars

\* C24: for 0 <= i < length, delete_ith(i) returning x with
\* insert_at_ith(i, x) called next leaves the length and the forward order
\* of the values what they were before the delete.
C24_DeleteThenInsertRestores ==
    [][Calls("delete_ith") /\ U32Lt(last'.index, length)
        => /\ ~last'.panicked
           /\ last'.ret # NoneT
           /\ \A o \in InsertAtIth(Self', last'.index, last'.ret[1]) :
                 /\ ~o.panicked /\ o.fault = "none"
                 /\ o.length = length
                 /\ Values(List(o)) = Values(Self)]_vars

====
